---- MODULE Spec2Model ----
(***************************************************************************)
(* Model of qgallouedec/go-explore:                                        *)
(*   go_explore/utils.py                     indexes, index, multinomial,  *)
(*                                           sample_geometric              *)
(*   go_explore/inverse_dynamic_go_explore.py  callbacks, cell factory,    *)
(*                                           GoExploreInverseModel         *)
(*   lge/inverse_model.py                    the two encoders              *)
(* Each group of operations has its own specification over the shared      *)
(* variable list; the variables of the other groups stay at their idle     *)
(* values.                                                                 *)
(***************************************************************************)
EXTENDS Integers, Sequences, FiniteSets

VARIABLES
    \* sample_geometric
    g_pc, mean, max_value, value,
    \* multinomial
    m_pc, weights, m_result,
    \* indexes / index
    i_pc, a, b, idxs, idx,
    \* the inverse model (shared by the learner and the cell factory)
    model_kind, params, training,
    \* InverseModelLearner: Adam's step count, the pred_loss records, the
    \* position in range(gradient_steps), the exception leaving a callback
    opt_steps, logged, grad, exc,
    \* the archive: stored observations and their cell labels
    observations, cells,
    \* the exploration run
    e_pc, update_cell_factory_freq, total_timesteps, num_timesteps, new_obs,
    store_first, cb, n_calls,
    \* history: what the callbacks did during the current environment step,
    \* and the outcome of the latest recompute_cells pass
    ops, last_pass,
    \* construction of GoExploreInverseModel: the environment's spaces and
    \* the inverse model built for them
    c_pc, observation_space, action_shape, inverse_model

g_vars == <<g_pc, mean, max_value, value>>
m_vars == <<m_pc, weights, m_result>>
i_vars == <<i_pc, a, b, idxs, idx>>
l_vars == <<model_kind, params, training, opt_steps, logged, grad, exc,
            observations, cells, e_pc, update_cell_factory_freq,
            total_timesteps, num_timesteps, new_obs, store_first, cb, n_calls,
            ops, last_pass>>
c_vars == <<c_pc, observation_space, action_shape, inverse_model>>
vars == <<g_vars, m_vars, i_vars, l_vars, c_vars>>

\* Python's None, and the exception a call ends with (results are >= 0).
None == -1
ValueError == -2

Max(x, y) == IF x >= y THEN x ELSE y
Abs(x) == IF x >= 0 THEN x ELSE -x
Sign(x) == IF x > 0 THEN 1 ELSE IF x < 0 THEN -1 ELSE 0

IdleGeo == g_pc = "idle" /\ mean = 0 /\ max_value = 0 /\ value = 0
IdleMulti == m_pc = "idle" /\ weights = <<>> /\ m_result = None
IdleIndex == i_pc = "idle" /\ a = <<>> /\ b = <<>> /\ idxs = <<>> /\ idx = None
IdleLearner ==
    /\ model_kind = "none" /\ params = 0 /\ training = TRUE
    /\ opt_steps = 0 /\ logged = 0 /\ grad = 0 /\ exc = "none"
    /\ observations = <<>> /\ cells = <<>>
    /\ e_pc = "idle" /\ update_cell_factory_freq = 0 /\ total_timesteps = 0
    /\ num_timesteps = 0 /\ new_obs = 0 /\ store_first = FALSE /\ cb = 0
    /\ n_calls = <<>> /\ ops = <<>> /\ last_pass = <<>>
IdleCtor ==
    /\ c_pc = "idle" /\ observation_space = <<>> /\ action_shape = <<>>
    /\ inverse_model = <<>>

(***************************************************************************)
(* sample_geometric(mean, max_value)                       utils.py 44-62  *)
(***************************************************************************)
MaxMean == 3
MaxMaxValue == 41
\* draws above MaxMaxValue all behave alike: they are rejected
MaxDraw == MaxMaxValue + 1

\* int(max_value / 20): true division, then truncation towards zero
IntDiv20(mv) == IF mv >= 0 THEN mv \div 20 ELSE -((-mv) \div 20)

\* np.clip(mean, a_min=int(max_value / 20), a_max=None)
ClipMean(m, mv) == Max(m, IntDiv20(mv))

\* np.random.geometric(1 / mean) raises unless 0 < 1/mean <= 1
GeometricValid(m) == m >= 1

\* the values np.random.geometric(1 / mean) can return: with p = 1 the
\* first trial succeeds, with p < 1 every positive integer has positive
\* probability
GeometricSupport(m) == IF m = 1 THEN {1} ELSE 1..MaxDraw

AcceptsLoose(v, mv) == v <= mv
AcceptsTight(v, mv) == v < mv - 1
\* if value < max_value: return value
Accepts(v, mv) == v < mv

InitGeo ==
    /\ g_pc = "start"
    /\ mean \in 0..MaxMean
    /\ max_value \in 0..MaxMaxValue
    /\ value = 0
    /\ IdleMulti /\ IdleIndex /\ IdleLearner /\ IdleCtor

\* line 57: the argument is replaced by the clipped mean
Clip ==
    /\ g_pc = "start"
    /\ mean' = ClipMean(mean, max_value)
    /\ g_pc' = "loop"
    /\ UNCHANGED <<max_value, value, m_vars, i_vars, l_vars, c_vars>>

\* one pass of the loop whose draw is returned
DrawAccept ==
    /\ g_pc = "loop"
    /\ GeometricValid(mean)
    /\ \E v \in GeometricSupport(mean) :
          /\ Accepts(v, max_value)
          /\ value' = v
    /\ g_pc' = "returned"
    /\ UNCHANGED <<mean, max_value, m_vars, i_vars, l_vars, c_vars>>

\* one pass of the loop whose draw is thrown away
DrawReject ==
    /\ g_pc = "loop"
    /\ GeometricValid(mean)
    /\ \E v \in GeometricSupport(mean) :
          /\ ~Accepts(v, max_value)
          /\ value' = v
    /\ g_pc' = "loop"
    /\ UNCHANGED <<mean, max_value, m_vars, i_vars, l_vars, c_vars>>

\* the draw itself raises (p outside (0, 1])
DrawError ==
    /\ g_pc = "loop"
    /\ ~GeometricValid(mean)
    /\ g_pc' = "raised"
    /\ UNCHANGED <<mean, max_value, value, m_vars, i_vars, l_vars, c_vars>>

NextGeo == Clip \/ DrawAccept \/ DrawReject \/ DrawError

SpecGeo == InitGeo /\ [][NextGeo]_vars

\* the random draw is fair: an outcome that stays possible is eventually drawn
SpecGeoFair ==
    /\ InitGeo /\ [][NextGeo]_vars
    /\ WF_vars(Clip) /\ WF_vars(DrawError) /\ SF_vars(DrawAccept)

\* C3: every value sample_geometric returns lies in [0, max_value), and a
\* draw that is >= max_value is never returned: the loop goes round again.
C3_ReturnedBelowMax ==
    /\ g_pc = "returned" => (value >= 0 /\ value < max_value)
    /\ (value >= 1 /\ value >= max_value) => g_pc = "loop"

\* a call with a mean above 1 returned the largest value it may return
C3_Witness ==
    g_pc = "returned" /\ mean > 1 /\ max_value > 20 /\ value = max_value - 1

\* C4: for a mean below max_value/20 the call behaves as
\* sample_geometric(max_value/20, max_value) does: the draw raises exactly
\* when 20/max_value is no probability, and otherwise the mean used for the
\* draw is max_value/20 (both sides scaled by 20 to stay in the integers).
C4_ClampToTwentieth ==
    [][(Clip /\ 20 * mean < max_value) =>
          IF max_value < 20 THEN ~GeometricValid(mean')
                            ELSE 20 * mean' = max_value]_vars

\* C5: with mean >= 1 and max_value >= 2 the loop eventually returns a
\* value; every call with max_value >= 2 ends (with a value or with the
\* error of the draw); a call with max_value <= 1 never returns.
C5_Terminates ==
    /\ (g_pc = "start" /\ mean >= 1 /\ max_value >= 2) ~> (g_pc = "returned")
    /\ (g_pc = "start" /\ max_value >= 2) ~> (g_pc \in {"returned", "raised"})
    /\ [](max_value <= 1 => g_pc # "returned")

\* a call that had to draw from an infinite support came back with a value
C5_Witness ==
    g_pc = "returned" /\ mean >= 2 /\ max_value >= 2 /\ value >= 1

(***************************************************************************)
(* multinomial(weights)                                    utils.py 37-41  *)
(***************************************************************************)
MaxWeights == 3
MaxWeight == 2

RECURSIVE SumSeq(_)
SumSeq(w) == IF w = <<>> THEN 0 ELSE w[1] + SumSeq(Tail(w))

\* p = weights / weights.sum(): p[i] is the fraction PNum(w, i) / PDen(w)
\* with a non-negative denominator; a zero sum gives nan or +-inf and no
\* exception
PDen(w) == Abs(SumSeq(w))
PNum(w, i) == w[i] * Sign(SumSeq(w))

\* np.random.multinomial rejects pvals that are nan, below 0 or above 1
PvalsValid(w) ==
    /\ PDen(w) # 0
    /\ \A i \in 1..Len(w) : PNum(w, i) >= 0 /\ PNum(w, i) <= PDen(w)

\* the (0-based) indices the single trial can fall on
MultinomialOutcomes(w) == {i - 1 : i \in {j \in 1..Len(w) : PNum(w, j) > 0}}

WeightVectors ==
    UNION {[1..n -> (-MaxWeight)..MaxWeight] : n \in 1..MaxWeights}

InitMulti ==
    /\ m_pc = "start"
    /\ weights \in WeightVectors
    /\ m_result = None
    /\ IdleGeo /\ IdleIndex /\ IdleLearner /\ IdleCtor

MultinomialReturns ==
    /\ m_pc = "start"
    /\ PvalsValid(weights)
    /\ m_result' \in MultinomialOutcomes(weights)
    /\ m_pc' = "returned"
    /\ UNCHANGED <<weights, g_vars, i_vars, l_vars, c_vars>>

MultinomialRaises ==
    /\ m_pc = "start"
    /\ ~PvalsValid(weights)
    /\ m_result' = ValueError
    /\ m_pc' = "raised"
    /\ UNCHANGED <<weights, g_vars, i_vars, l_vars, c_vars>>

NextMulti == MultinomialReturns \/ MultinomialRaises

SpecMulti == InitMulti /\ [][NextMulti]_vars

HasNegative(w) == \E i \in 1..Len(w) : w[i] < 0

\* C6: multinomial raises for every weight vector with a zero sum and for
\* every weight vector with a negative entry; for non-negative weights with
\* a positive sum it returns an index in range whose weight is positive.
C6_InvalidDistributionRaises ==
    m_pc # "start" =>
        IF SumSeq(weights) = 0 \/ HasNegative(weights)
        THEN m_pc = "raised" /\ m_result = ValueError
        ELSE /\ m_pc = "returned"
             /\ m_result \in 0..(Len(weights) - 1)
             /\ weights[m_result + 1] > 0

(***************************************************************************)
(* indexes(a, b), index(a, b)                              utils.py 6-34   *)
(***************************************************************************)
MaxRows == 3
RowSize == 2
\* the values an array element takes
Elems == {0, 1}

RowMatchesAny(x, row) == \E k \in 1..Len(x) : x[k] = row[k]
\* (a == b).all(1) for one row of the reshaped b
RowMatches(x, row) == \A k \in 1..Len(x) : x[k] = row[k]

\* np.where(mask)[0]: the 0-based positions of the matching rows, ascending
RECURSIVE Where(_, _, _)
Where(x, rows, i) ==
    IF i > Len(rows) THEN <<>>
    ELSE IF RowMatches(x, rows[i]) THEN <<i - 1>> \o Where(x, rows, i + 1)
    ELSE Where(x, rows, i + 1)

indexes(x, rows) == IF Len(rows) = 0 THEN <<>> ELSE Where(x, rows, 1)

IndexLast(x, rows) ==
    IF Len(indexes(x, rows)) = 0 THEN None
    ELSE indexes(x, rows)[Len(indexes(x, rows))]
index(x, rows) ==
    IF Len(indexes(x, rows)) = 0 THEN None ELSE indexes(x, rows)[1]

Rows == [1..RowSize -> Elems]

InitIndex ==
    /\ i_pc = "start"
    /\ a \in Rows
    /\ b \in UNION {[1..n -> Rows] : n \in 0..MaxRows}
    /\ idxs = <<>>
    /\ idx = None
    /\ IdleGeo /\ IdleMulti /\ IdleLearner /\ IdleCtor

CallIndexes ==
    /\ i_pc = "start"
    /\ idxs' = indexes(a, b)
    /\ i_pc' = "indexes"
    /\ UNCHANGED <<a, b, idx, g_vars, m_vars, l_vars, c_vars>>

CallIndex ==
    /\ i_pc = "start"
    /\ idxs' = indexes(a, b)
    /\ idx' = index(a, b)
    /\ i_pc' = "index"
    /\ UNCHANGED <<a, b, g_vars, m_vars, l_vars, c_vars>>

NextIndex == CallIndexes \/ CallIndex

SpecIndex == InitIndex /\ [][NextIndex]_vars

Matching == {i \in 0..(Len(b) - 1) : b[i + 1] = a}

\* C7: indexes returns exactly the positions of the rows of b equal to a,
\* in ascending order; index returns the smallest of them, or None when
\* there is none; for an empty b the results are empty and None.
C7_ExactMatches ==
    /\ i_pc # "start" =>
          /\ {idxs[k] : k \in 1..Len(idxs)} = Matching
          /\ \A k \in 1..(Len(idxs) - 1) : idxs[k] < idxs[k + 1]
          /\ Len(b) = 0 => idxs = <<>>
    /\ i_pc = "index" =>
          /\ Matching = {} => idx = None
          /\ Matching # {} =>
                idx \in Matching /\ \A j \in Matching : idx <= j
          /\ Len(b) = 0 => idx = None

\* index was called on a batch with two matching rows after a row that
\* differs from the needle in one element only
C7_Witness ==
    /\ i_pc = "index" /\ Len(b) = 3 /\ idx = 1 /\ idxs = <<1, 2>>
    /\ b[1][1] = a[1] /\ b[1][2] # a[2]

(***************************************************************************)
(* The inverse model and the cell factory                                  *)
(*   lge/inverse_model.py, inverse_dynamic_go_explore.py 83-102            *)
(***************************************************************************)
MaxParam == 1
MaxObs == 1
\* the values the weights can take, and the observations of the environment
Params == 0..MaxParam
Obs == 0..MaxObs

u_vars == <<g_vars, m_vars, i_vars, c_vars>>

\* torch.round(x, decimals=0) + 0.0 of the fraction n/d (d > 0): the nearest
\* integer, a half goes to the even neighbour, and -0.0 becomes 0.0
RoundHalfEven(n, d) ==
    LET q == n \div d
        r == n % d
    IN  IF 2 * r < d THEN q
        ELSE IF 2 * r > d THEN q + 1
        ELSE IF q % 2 = 0 THEN q ELSE q + 1

\* only the encoder of LinearInverseModel has nn.Dropout layers
HasDropout(kind) == kind = "linear"

\* nn.Dropout(0.2) on an input o, in quarters: in training mode the input is
\* zeroed or scaled by 1/0.8, in inference mode it passes unchanged
DropoutOutcomes(o, kind, train) ==
    IF train /\ HasDropout(kind) THEN {0, 5 * o} ELSE {4 * o}

\* the encoder's linear map under weights p, from quarters to eighths
Latent8(x4, p) == x4 * (2 * p + 1) - 4

\* self.inverse_model.encoder(observations) for one observation
EncoderOutcomes(o, kind, p, train) ==
    {Latent8(x, p) : x \in DropoutOutcomes(o, kind, train)}

\* the cell of one observation when nothing is dropped
Cell(o, p) == RoundHalfEven(Latent8(4 * o, p), 8)

KeepMode(t) == t
\* self.inverse_model.eval(): the training flag after the call
EvalMode(t) == FALSE

\* the batches of cells compute_cells can return for a batch of observations
RECURSIVE ComputeCellsOutcomes(_, _, _, _)
ComputeCellsOutcomes(batch, kind, p, train) ==
    IF batch = <<>> THEN {<<>>}
    ELSE {<<RoundHalfEven(l, 8)>> \o rest :
             l \in EncoderOutcomes(Head(batch), kind, p, train),
             rest \in ComputeCellsOutcomes(Tail(batch), kind, p, train)}

\* compute_cells(batch) with result c: the model is switched to inference
\* mode, then the encoder is evaluated and its output rounded
compute_cells(batch, c) ==
    /\ training' = EvalMode(training)
    /\ c \in ComputeCellsOutcomes(batch, model_kind, params, training')

(***************************************************************************)
(* ArchiveBuffer (go_explore/archive.py)                                   *)
(***************************************************************************)
BatchSize == 2
CellSpace == (-1)..(2 * MaxObs * (2 * MaxParam + 1))

\* append: the transition is stored with the cell of its observation
add(o) ==
    /\ observations' = Append(observations, o)
    /\ \E c \in CellSpace :
          /\ compute_cells(<<o>>, <<c>>)
          /\ cells' = Append(cells, c)

\* sample(batch_size) signals the insufficient-buffer condition
SampleRaises(n) == Len(observations) < n

\* recompute_cells: every stored observation is labelled again
recompute_cells ==
    /\ \E c \in ComputeCellsOutcomes(observations, model_kind, params,
                                      EvalMode(training)) :
          /\ compute_cells(observations, c)
          /\ cells' = c
    /\ last_pass' = [opt_steps |-> opt_steps, cells |-> cells',
                     repeat |-> IF last_pass.opt_steps = opt_steps
                                THEN 2 ELSE 1]
    /\ UNCHANGED observations

NoPass == [opt_steps |-> -1, cells |-> <<>>, repeat |-> 0]

(***************************************************************************)
(* InverseModelLearner.train_once        inverse_dynamic_go_explore 54-80  *)
(***************************************************************************)
train_once_uncaught ==
    IF SampleRaises(BatchSize)
    THEN /\ exc' = "ValueError"
         /\ UNCHANGED <<params, training, opt_steps, logged>>
    ELSE /\ training' = TRUE
         /\ params' \in Params
         /\ opt_steps' = opt_steps + 1
         /\ logged' = logged + 1
         /\ UNCHANGED exc
train_once ==
    IF SampleRaises(BatchSize)
    THEN \* except ValueError: return super()._on_step()
         UNCHANGED <<params, training, opt_steps, logged, exc>>
    ELSE \* train(), forward, loss, optimizer step, logger.record
         /\ training' = TRUE
         /\ params' \in Params
         /\ opt_steps' = opt_steps + 1
         /\ logged' = logged + 1
         /\ UNCHANGED exc

(***************************************************************************)
(* Direct calls of train_once, add and recompute_cells in any order        *)
(***************************************************************************)
MaxBuffer == 3
MaxOptSteps == 2

InitCalls ==
    /\ model_kind \in {"linear", "conv"}
    /\ params \in Params
    /\ training = TRUE
    /\ opt_steps = 0 /\ logged = 0 /\ grad = 0 /\ exc = "none"
    /\ observations = <<>> /\ cells = <<>>
    /\ e_pc = "calls" /\ update_cell_factory_freq = 0 /\ total_timesteps = 0
    /\ num_timesteps = 0 /\ new_obs = 0 /\ store_first = FALSE /\ cb = 0
    /\ n_calls = <<>> /\ ops = <<>> /\ last_pass = NoPass
    /\ IdleGeo /\ IdleMulti /\ IdleIndex /\ IdleCtor

CallAdd ==
    /\ e_pc = "calls"
    /\ Len(observations) < MaxBuffer
    /\ \E o \in Obs : add(o)
    /\ UNCHANGED <<model_kind, params, opt_steps, logged, grad, exc, e_pc,
                   update_cell_factory_freq, total_timesteps, num_timesteps,
                   new_obs, store_first, cb, n_calls, ops, last_pass, u_vars>>

CallTrainOnce ==
    /\ e_pc = "calls"
    /\ opt_steps < MaxOptSteps
    /\ train_once
    /\ UNCHANGED <<model_kind, grad, observations, cells, e_pc,
                   update_cell_factory_freq, total_timesteps, num_timesteps,
                   new_obs, store_first, cb, n_calls, ops, last_pass, u_vars>>

CallRecompute ==
    /\ e_pc = "calls"
    /\ recompute_cells
    /\ UNCHANGED <<model_kind, params, opt_steps, logged, grad, exc, e_pc,
                   update_cell_factory_freq, total_timesteps, num_timesteps,
                   new_obs, store_first, cb, n_calls, ops, u_vars>>

NextCalls == CallAdd \/ CallTrainOnce \/ CallRecompute

SpecCalls == InitCalls /\ [][NextCalls]_vars

\* C2: compute_cells leaves the model in inference mode and the weights as
\* they are, the labels it produces are those of the encoder without
\* dropout, and a recompute pass that follows another one with no weight
\* update in between gives every observation the label it had.
C2_RecomputeIdempotent ==
    [][CallRecompute =>
          /\ params' = params
          /\ training' = FALSE
          /\ \A i \in 1..Len(observations) :
                cells'[i] = Cell(observations[i], params)
          /\ last_pass.opt_steps = opt_steps =>
                \A i \in 1..Len(last_pass.cells) :
                    cells'[i] = last_pass.cells[i]]_vars

\* train_once left the dropout model in training mode, and two passes over
\* a non-empty archive followed it with no further weight update
C2_Witness ==
    /\ e_pc = "calls" /\ model_kind = "linear" /\ opt_steps >= 1
    /\ last_pass.opt_steps = opt_steps /\ last_pass.repeat = 2
    /\ Len(cells) >= 2 /\ \E i \in 1..Len(cells) : observations[i] # 0

(***************************************************************************)
(* GoExploreInverseModel.explore and the callbacks                         *)
(*   inverse_dynamic_go_explore.py 20-52, 128-143                          *)
(***************************************************************************)
MaxFreq == 3
MaxTimesteps == 6

CallbacksSwapped == <<"recompute", "learner", "image_saver">>
\* the callback list handed to the exploration loop, in call order
Callbacks == <<"learner", "recompute", "image_saver">>

\* train_freq=update_cell_factory_freq, gradient_steps=update_cell_factory_freq
train_freq == update_cell_factory_freq
gradient_steps == update_cell_factory_freq

\* if self.n_calls % self.train_freq == 0
LearnerDue(n) == n % train_freq = 0

RecomputeDueLate(n) == n % (update_cell_factory_freq + 1) = 0
\* if self.n_calls % self.freq == 0
RecomputeDue(n) == n % update_cell_factory_freq = 0

InitExplore ==
    /\ model_kind \in {"linear", "conv"}
    /\ params \in Params
    /\ training = TRUE
    /\ opt_steps = 0 /\ logged = 0 /\ grad = 0 /\ exc = "none"
    /\ observations = <<>> /\ cells = <<>>
    /\ e_pc = "collect"
    /\ update_cell_factory_freq \in 1..MaxFreq
    /\ total_timesteps = MaxTimesteps
    /\ num_timesteps = 0 /\ new_obs = 0
    /\ store_first \in BOOLEAN
    /\ cb = 1
    /\ n_calls = [c \in {"learner", "recompute", "image_saver"} |-> 0]
    /\ ops = <<>> /\ last_pass = NoPass
    /\ IdleGeo /\ IdleMulti /\ IdleIndex /\ IdleCtor

\* where the loop goes once a step's callbacks have run and its transition
\* is stored
AfterStep == IF num_timesteps >= total_timesteps THEN "done" ELSE "collect"

\* where the loop goes when callback number c has returned
AfterCallback(c) ==
    IF c < Len(Callbacks) THEN "callbacks"
    ELSE IF store_first THEN AfterStep ELSE "store"

\* one environment step of the exploration loop
Collect ==
    /\ e_pc = "collect"
    /\ num_timesteps < total_timesteps
    /\ new_obs' \in Obs
    /\ num_timesteps' = num_timesteps + 1
    /\ ops' = <<>>
    /\ cb' = 1
    /\ e_pc' = IF store_first THEN "store" ELSE "callbacks"
    /\ UNCHANGED <<model_kind, params, training, opt_steps, logged, grad,
                   exc, observations, cells, update_cell_factory_freq,
                   total_timesteps, store_first, n_calls, last_pass, u_vars>>

\* the step's transition is appended to the archive
Store ==
    /\ e_pc = "store"
    /\ add(new_obs)
    /\ e_pc' = IF store_first THEN "callbacks" ELSE AfterStep
    /\ UNCHANGED <<model_kind, params, opt_steps, logged, grad, exc,
                   update_cell_factory_freq, total_timesteps, num_timesteps,
                   new_obs, store_first, cb, n_calls, ops, last_pass, u_vars>>

\* InverseModelLearner._on_step up to the start of its loop
LearnerOnStep ==
    /\ e_pc = "callbacks"
    /\ cb <= Len(Callbacks) /\ Callbacks[cb] = "learner"
    /\ n_calls' = [n_calls EXCEPT !["learner"] = @ + 1]
    /\ IF LearnerDue(n_calls'["learner"])
       THEN e_pc' = "training" /\ grad' = 0 /\ cb' = cb
       ELSE e_pc' = AfterCallback(cb) /\ grad' = grad /\ cb' = cb + 1
    /\ UNCHANGED <<model_kind, params, training, opt_steps, logged, exc,
                   observations, cells, update_cell_factory_freq,
                   total_timesteps, num_timesteps, new_obs, store_first,
                   ops, last_pass, u_vars>>

\* one pass of `for _ in range(self.gradient_steps): self.train_once()`
TrainOnceStep ==
    /\ e_pc = "training"
    /\ grad < gradient_steps
    /\ train_once
    /\ ops' = Append(ops, "train")
    /\ IF exc' # "none"
       THEN e_pc' = "raised" /\ UNCHANGED <<grad, cb>>
       ELSE /\ grad' = grad + 1
            /\ IF grad' = gradient_steps
               THEN e_pc' = AfterCallback(cb) /\ cb' = cb + 1
               ELSE e_pc' = "training" /\ cb' = cb
    /\ UNCHANGED <<model_kind, observations, cells, update_cell_factory_freq,
                   total_timesteps, num_timesteps, new_obs, store_first,
                   n_calls, last_pass, u_vars>>

\* RecomputeCell._on_step
RecomputeOnStep ==
    /\ e_pc = "callbacks"
    /\ cb <= Len(Callbacks) /\ Callbacks[cb] = "recompute"
    /\ n_calls' = [n_calls EXCEPT !["recompute"] = @ + 1]
    /\ IF RecomputeDue(n_calls'["recompute"])
       THEN recompute_cells /\ ops' = Append(ops, "recompute")
       ELSE UNCHANGED <<training, observations, cells, last_pass, ops>>
    /\ e_pc' = AfterCallback(cb)
    /\ cb' = cb + 1
    /\ UNCHANGED <<model_kind, params, opt_steps, logged, grad, exc,
                   update_cell_factory_freq, total_timesteps, num_timesteps,
                   new_obs, store_first, u_vars>>

\* ImageSaver: an image dump, nothing the loop or the archive reads
ImageSaverOnStep ==
    /\ e_pc = "callbacks"
    /\ cb <= Len(Callbacks) /\ Callbacks[cb] = "image_saver"
    /\ n_calls' = [n_calls EXCEPT !["image_saver"] = @ + 1]
    /\ e_pc' = AfterCallback(cb)
    /\ cb' = cb + 1
    /\ UNCHANGED <<model_kind, params, training, opt_steps, logged, grad,
                   exc, observations, cells, update_cell_factory_freq,
                   total_timesteps, num_timesteps, new_obs, store_first,
                   ops, last_pass, u_vars>>

NextExplore ==
    \/ Collect \/ Store \/ LearnerOnStep \/ TrainOnceStep
    \/ RecomputeOnStep \/ ImageSaverOnStep

SpecExplore == InitExplore /\ [][NextExplore]_vars

\* the count of the environment step the callbacks are working on
StepCalls ==
    Max(n_calls["learner"], Max(n_calls["recompute"], n_calls["image_saver"]))

\* the step's count is a positive multiple of update_cell_factory_freq
StepDue == StepCalls > 0 /\ StepCalls % update_cell_factory_freq = 0

\* every callback of the current step has returned
CallbacksOver == e_pc \in {"collect", "done"} \/ (e_pc = "store" /\ ~store_first)

\* the current step is over: callbacks returned, transition stored
StepOver == e_pc \in {"collect", "done"}

NumTrain == Cardinality({k \in 1..Len(ops) : ops[k] = "train"})

IsPrefix(x, y) == Len(x) <= Len(y) /\ \A k \in 1..Len(x) : x[k] = y[k]

\* C1: a train_once whose sample signals the insufficient-buffer condition
\* returns without raising and changes neither the weights, the mode, the
\* optimizer state nor the log; the loop of _on_step goes on to its next
\* attempt, makes all gradient_steps attempts, and no exception ever
\* reaches the exploration loop.
C1_SilentNoOp ==
    /\ [][(TrainOnceStep /\ SampleRaises(BatchSize)) =>
             /\ params' = params /\ training' = training
             /\ opt_steps' = opt_steps /\ logged' = logged
             /\ exc' = "none" /\ e_pc' # "raised"
             /\ grad' = grad + 1]_vars
    /\ [](exc = "none" /\ e_pc # "raised")
    /\ []((CallbacksOver /\ StepDue) => NumTrain = update_cell_factory_freq)

\* a step on which every one of two or more attempts found the buffer too
\* small: the loop ran to its end and nothing was logged
C1_Witness ==
    /\ StepOver /\ StepDue /\ update_cell_factory_freq >= 2
    /\ NumTrain = update_cell_factory_freq /\ logged = 0 /\ opt_steps = 0

\* what the callbacks do on the step with count n
ExpectedOps(n) ==
    IF n > 0 /\ n % update_cell_factory_freq = 0
    THEN [k \in 1..(update_cell_factory_freq + 1) |->
             IF k <= update_cell_factory_freq THEN "train" ELSE "recompute"]
    ELSE <<>>

\* C9: on a step whose count is a positive multiple of
\* update_cell_factory_freq the callbacks make update_cell_factory_freq
\* train_once attempts and then exactly one recompute_cells call, in that
\* order; on every other step they make none.
C9_TrainThenRecompute ==
    /\ e_pc # "idle" => IsPrefix(ops, ExpectedOps(StepCalls))
    /\ CallbacksOver => ops = ExpectedOps(StepCalls)

\* the run is past a step that trained twice and then relabelled, after a
\* step that did neither
C9_Witness ==
    /\ StepOver /\ update_cell_factory_freq = 2 /\ StepCalls = 4
    /\ ops = <<"train", "train", "recompute">> /\ opt_steps >= 2

\* C10: the stored labels are at every instant those of one weight
\* snapshot, and once a step on which RecomputeCell fires is over every
\* stored label is the cell of its observation under the current weights.
C10_OneSnapshot ==
    e_pc # "idle" =>
       /\ Len(cells) = Len(observations)
       /\ \E p \in Params :
             \A i \in 1..Len(cells) : cells[i] = Cell(observations[i], p)
       /\ (StepOver /\ StepDue) =>
             \A i \in 1..Len(cells) : cells[i] = Cell(observations[i], params)

\* the learner has moved the weights and RecomputeCell is about to run:
\* the stored labels are those of the previous snapshot
C10_Witness ==
    /\ e_pc = "callbacks" /\ cb = 2 /\ StepDue /\ Len(cells) >= 2
    /\ \E i \in 1..Len(cells) : cells[i] # Cell(observations[i], params)

(***************************************************************************)
(* GoExploreInverseModel.__init__      inverse_dynamic_go_explore 108-126  *)
(* and the first evaluation of the encoder it built                        *)
(***************************************************************************)
MaxVector == 3
ImageChannels == {1, 3}
ImageSides == {64, 84}

\* is_image_space: a uint8 box of three dimensions
is_image_space(space) == space.uint8 /\ Len(space.shape) = 3

\* ConvInverseModel(action_size, latent_size): built without looking at the
\* environment's observation space
ConvInverseModel(action_size) ==
    [kind |-> "conv", obs_shape |-> <<3, 84, 84>>, in_channels |-> 3,
     in_features |-> 64 * 7 * 7, action_size |-> action_size]

\* LinearInverseModel(obs_size, action_size, latent_size)
LinearInverseModel(obs_size, action_size) ==
    [kind |-> "linear", obs_shape |-> <<obs_size>>, in_channels |-> 0,
     in_features |-> obs_size, action_size |-> action_size]

\* output side of nn.Conv2d without padding (0: the input is too small)
ConvOut(n, kernel, stride) ==
    IF n < kernel THEN 0 ELSE (n - kernel) \div stride + 1

\* side of the feature map after the three convolutions of the encoder
ConvSide(n) == ConvOut(ConvOut(ConvOut(n, 8, 4), 4, 2), 3, 1)

\* the encoder's forward pass accepts a batch of observations of this shape
EncoderAccepts(model, shape) ==
    IF model.kind = "conv"
    THEN /\ Len(shape) = 3
         /\ shape[1] = model.in_channels
         /\ ConvSide(shape[2]) > 0 /\ ConvSide(shape[3]) > 0
         /\ 64 * ConvSide(shape[2]) * ConvSide(shape[3]) = model.in_features
    ELSE shape[Len(shape)] = model.in_features

ObservationSpaces ==
    [shape : {<<n>> : n \in 1..MaxVector}
               \cup {<<c, h, w>> : c \in ImageChannels,
                                   h \in ImageSides, w \in ImageSides},
     uint8 : BOOLEAN]

\* the shape of a Box action space, or () for a Discrete one
ActionShapes == {<<>>, <<1>>, <<2>>}

InitCtor ==
    /\ c_pc = "new"
    /\ observation_space \in ObservationSpaces
    /\ action_shape \in ActionShapes
    /\ inverse_model = <<>>
    /\ IdleGeo /\ IdleMulti /\ IdleIndex /\ IdleLearner

\* __init__ raises: env.action_space.shape[0] of an empty shape
ConstructRaises ==
    /\ c_pc = "new"
    /\ action_shape = <<>>
    /\ c_pc' = "ctor_raised"
    /\ UNCHANGED <<observation_space, action_shape, inverse_model,
                   g_vars, m_vars, i_vars, l_vars>>

\* BaseGoExplore.__init__(model_class, env, cell_factory, ...): wraps the
\* environment and builds the trainer and its archive; it evaluates no
\* encoder and compares no shapes, so it accepts every cell factory
BaseGoExploreInit(model, space) == TRUE

\* __init__ returns: the encoder is chosen by is_image_space alone
Construct ==
    /\ c_pc = "new"
    /\ action_shape # <<>>
    /\ inverse_model' =
          IF is_image_space(observation_space)
          THEN ConvInverseModel(action_shape[1])
          ELSE LinearInverseModel(observation_space.shape[1], action_shape[1])
    /\ BaseGoExploreInit(inverse_model', observation_space)
    /\ c_pc' = "constructed"
    /\ UNCHANGED <<observation_space, action_shape,
                   g_vars, m_vars, i_vars, l_vars>>

\* the first compute_cells / train_once on observations of the environment
FirstEvaluation ==
    /\ c_pc = "constructed"
    /\ c_pc' = IF EncoderAccepts(inverse_model, observation_space.shape)
               THEN "evaluated" ELSE "step_raised"
    /\ UNCHANGED <<observation_space, action_shape, inverse_model,
                   g_vars, m_vars, i_vars, l_vars>>

NextCtor == ConstructRaises \/ Construct \/ FirstEvaluation

SpecCtor == InitCtor /\ [][NextCtor]_vars

====
